---- MODULE Spec2Model ----
(***************************************************************************)
(* Habit streaks (models/habit.py, habits/__init__.py), experience points  *)
(* (models/user.py) and savings goals (models/wallet.py) of sparkos.       *)
(*                                                                         *)
(* The variables hold the COMMITTED database state, plus the position and  *)
(* the session of every request that is between two commits.  Dates are    *)
(* day ordinals: day 0 is a Monday and the 1st of a month.  Money is in    *)
(* cents (Numeric(10, 2)).                                                 *)
(***************************************************************************)
EXTENDS Integers, FiniteSets, Sequences, TLC

\* ------------------------------------------------------------------ bounds
MaxDay == 2
MaxCompletions == 3
MaxTxns == 2
WeekEnd == 4
MaxXp == 250

\* ------------------------------------------------------- program constants
XpPerCompletion == 10
XpPerLevel == 100

\* ------------------------------------------------------------- input sets
Habits == {1, 2}
Reqs == {1, 2}
Goals == {1, 2}
Owner == 1
TargetAmounts == {0, 6500}
Amounts == {4000, 6500}
Days == 0..MaxDay
None == -1
DAILY == "daily"
WEEKLY == "weekly"
MONTHLY == "monthly"
Schedules ==
  { [frequency |-> DAILY, weekly_days |-> {}, monthly_days |-> {}],
    [frequency |-> WEEKLY, weekly_days |-> {0, 2, 4}, monthly_days |-> {}],
    [frequency |-> MONTHLY, weekly_days |-> {}, monthly_days |-> {1, 3}] }

VARIABLES
  today,            \* date.today(), a day ordinal
  schedule,         \* habit -> frequency, weekly_days, monthly_days
  current_streak,   \* habit -> Habit.current_streak
  longest_streak,   \* habit -> Habit.longest_streak
  last_completed,   \* habit -> Habit.last_completed (a day ordinal) or None
  completions,      \* habit -> day -> number of habit_completions rows
  xp_points,        \* User.xp_points of the owner
  level,            \* User.level of the owner
  resp,             \* the last response: operation, habit, outcome
  pc,               \* request -> where the request stands between commits
  sess,             \* request -> what its database session has loaded
  target_amount,    \* goal -> SavingsGoal.target_amount, in cents
  is_completed,     \* goal -> SavingsGoal.is_completed
  completed_at,     \* goal -> SavingsGoal.completed_at (a day ordinal) or None
  target_date,      \* goal -> SavingsGoal.target_date (a day ordinal) or None
  transactions,     \* the rows of the transactions table
  next_txn_id,      \* the next primary key of the transactions table
  gresp,            \* the last result of a savings-goal operation
  habit_ids,        \* the ids of the stored Habit rows
  is_active,        \* habit -> Habit.is_active
  goal_ids,         \* the ids of the stored SavingsGoal rows
  page,             \* what the last habits page or form handler answered
  summary           \* what the last get_monthly_summary call returned

habitVars == <<today, schedule, current_streak, longest_streak,
               last_completed, completions, xp_points, level, resp>>
raceVars == <<pc, sess>>
goalVars == <<target_amount, is_completed, completed_at, target_date,
              transactions, next_txn_id, gresp>>
siteVars == <<habit_ids, is_active, goal_ids, page, summary>>
vars == <<habitVars, raceVars, goalVars, siteVars>>

\* ------------------------------------------------------------ calendar
Weekday(d) == d % 7
DayOfMonth(d) == (d % 31) + 1

Max(a, b) == IF a >= b THEN a ELSE b

\* the days a completion row can be dated
Horizon == 0..Max(MaxDay, WeekEnd)

\* datetime.date: day 0 is Monday 1 January of BaseYear
BaseYear == 2024
Years == {2024, 2025}
Months == 1..12

IsLeap(y) == (y % 4 = 0 /\ y % 100 # 0) \/ y % 400 = 0

DaysInMonth(y, m) ==
  IF m = 2 THEN (IF IsLeap(y) THEN 29 ELSE 28)
  ELSE IF m \in {4, 6, 9, 11} THEN 30 ELSE 31

RECURSIVE DaysBeforeMonth(_, _)
DaysBeforeMonth(y, m) ==
  IF m = 1 THEN 0 ELSE DaysBeforeMonth(y, m - 1) + DaysInMonth(y, m - 1)

RECURSIVE DaysBeforeYear(_)
DaysBeforeYear(y) ==
  IF y = BaseYear THEN 0
  ELSE IF y > BaseYear
  THEN DaysBeforeYear(y - 1) + (IF IsLeap(y - 1) THEN 366 ELSE 365)
  ELSE DaysBeforeYear(y + 1) - (IF IsLeap(y) THEN 366 ELSE 365)

\* date(y, m, d) as a day ordinal
Ordinal(y, m, d) == DaysBeforeYear(y) + DaysBeforeMonth(y, m) + d - 1

\* the days of the year before the base year and of the years of Years
CalendarDays == Ordinal(BaseYear - 1, 1, 1)..Ordinal(BaseYear + 1, 12, 31)

\* date.year and date.month of every day ordinal
Calendar ==
  [d \in CalendarDays |->
     LET y == CHOOSE x \in Years \cup {BaseYear - 1} :
                Ordinal(x, 1, 1) <= d /\ d < Ordinal(x + 1, 1, 1)
         n == d - DaysBeforeYear(y)
     IN [year |-> y,
         month |-> CHOOSE m \in Months :
                     /\ DaysBeforeMonth(y, m) <= n
                     /\ n < DaysBeforeMonth(y, m) + DaysInMonth(y, m)]]

\* date.year and date.month of a day ordinal
YearOf(d) == Calendar[d].year

MonthOf(d) == Calendar[d].month

\* ------------------------------------------------- habits/__init__.py index
\* the rule with a weekly habit due on every day
IsDue_WeeklyAlways(s, d) ==
  CASE s.frequency = DAILY -> TRUE
    [] s.frequency = WEEKLY -> TRUE
    [] s.frequency = MONTHLY -> DayOfMonth(d) \in s.monthly_days
    [] OTHER -> FALSE

IsDue(s, d) ==
  CASE s.frequency = DAILY -> TRUE
    [] s.frequency = WEEKLY -> Weekday(d) \in s.weekly_days
    [] s.frequency = MONTHLY -> DayOfMonth(d) \in s.monthly_days
    [] OTHER -> FALSE

\* Habit.get_current_streak: the backward scan over the completion rows.
RECURSIVE ScanStreak(_, _, _)
ScanStreak(s, rows, d) ==
  IF d < 0 THEN 0
  ELSE IF ~IsDue(s, d) THEN ScanStreak(s, rows, d - 1)
  ELSE IF rows[d] > 0 THEN 1 + ScanStreak(s, rows, d - 1)
  ELSE 0

GetCurrentStreak(h) == ScanStreak(schedule[h], completions[h], today)

\* ----------------------------------------------------------- models/user.py
\* check_level_up asking for more than the XP needed
CheckLevelUp_Strict(xp, lvl) == IF xp > lvl * XpPerLevel THEN lvl + 1 ELSE lvl

\* check_level_up and level_up
CheckLevelUp(xp, lvl) == IF xp >= lvl * XpPerLevel THEN lvl + 1 ELSE lvl

AddXp(xp, lvl, points) ==
  [xp_points |-> xp + points, level |-> CheckLevelUp(xp + points, lvl)]

\* ---------------------------------------------------------- models/habit.py
\* HabitCompletion.query.filter_by(habit_id, completion_date).first()
ExistingCompletion(rows, h, d) == rows[h][d] > 0

\* the table without its unique constraint
UniqueHabitCompletion_Off(rows, h, d) == TRUE

\* unique_habit_completion: the insert is refused when a row is there.
UniqueHabitCompletion(rows, h, d) == rows[h][d] = 0

InsertCompletion(rows, h, d) ==
  [rows EXCEPT ![h][d] = @ + 1]

DeleteCompletion(rows, h, d) ==
  [rows EXCEPT ![h][d] = @ - 1]

\* Habit.update_streak(completed)
UpdateStreak(cs, ls, lc, completed, now) ==
  IF completed
  THEN [current_streak |-> cs + 1, longest_streak |-> Max(ls, cs + 1),
        last_completed |-> now]
  ELSE [current_streak |-> Max(0, cs - 1), longest_streak |-> ls,
        last_completed |-> lc]

\* Habit.add_completion, "Update streak", with the longest streak left alone
AddCompletionStreak_KeepLongest(cs, ls, now) ==
  [current_streak |-> cs + 1, longest_streak |-> ls, last_completed |-> now]

\* Habit.add_completion, "Update streak", recording the longest streak from
\* the counter before it is incremented
AddCompletionStreak_StaleLongest(cs, ls, now) ==
  [current_streak |-> cs + 1, longest_streak |-> cs, last_completed |-> now]

\* Habit.add_completion, "Update streak"
AddCompletionStreak(cs, ls, now) ==
  [current_streak |-> cs + 1,
   longest_streak |-> IF cs + 1 > ls THEN cs + 1 ELSE ls,
   last_completed |-> now]

Response(op, h, st, completed) ==
  [op |-> op, habit |-> h, status |-> st, completed |-> completed]

\* The committed rows of the habit tables and of the owner.
Db ==
  [completions |-> completions, current_streak |-> current_streak,
   longest_streak |-> longest_streak, last_completed |-> last_completed,
   xp_points |-> xp_points, level |-> level]

\* Habit.add_completion updating the streak on every call
AddCompletion_Recount(h) ==
  LET s == AddCompletionStreak(current_streak[h], longest_streak[h], today)
  IN /\ completions' = [completions EXCEPT ![h][today] = 1]
     /\ last_completed' = [last_completed EXCEPT ![h] = s.last_completed]
     /\ current_streak' = [current_streak EXCEPT ![h] = s.current_streak]
     /\ longest_streak' = [longest_streak EXCEPT ![h] = s.longest_streak]
     /\ resp' = Response("add_completion", h, 200,
                         ~ExistingCompletion(completions, h, today))
     /\ UNCHANGED <<today, schedule, xp_points, level, raceVars, goalVars,
                    siteVars>>

\* Habit.add_completion
AddCompletion(h) ==
  /\ IF ~ExistingCompletion(completions, h, today)
     THEN LET s == AddCompletionStreak(current_streak[h], longest_streak[h],
                                       today)
          IN /\ UniqueHabitCompletion(completions, h, today)
             /\ completions' = InsertCompletion(completions, h, today)
             /\ last_completed' = [last_completed EXCEPT ![h] = s.last_completed]
             /\ current_streak' = [current_streak EXCEPT ![h] = s.current_streak]
             /\ longest_streak' = [longest_streak EXCEPT ![h] = s.longest_streak]
             /\ resp' = Response("add_completion", h, 200, TRUE)
     ELSE /\ UNCHANGED <<completions, last_completed, current_streak,
                         longest_streak>>
          /\ resp' = Response("add_completion", h, 200, FALSE)
  /\ UNCHANGED <<today, schedule, xp_points, level, raceVars, goalVars, siteVars>>

\* complete_habit, the two branches, with the delete left out
ToggleRows_NoDelete(rows, h, d) ==
  IF ExistingCompletion(rows, h, d) THEN rows ELSE InsertCompletion(rows, h, d)

\* complete_habit, the two branches, with the insert left out
ToggleRows_NoInsert(rows, h, d) ==
  IF ExistingCompletion(rows, h, d) THEN DeleteCompletion(rows, h, d) ELSE rows

\* complete_habit: db.session.delete(existing_completion) or
\* db.session.add(completion)
ToggleRows(rows, h, d) ==
  IF ExistingCompletion(rows, h, d)
  THEN DeleteCompletion(rows, h, d)
  ELSE InsertCompletion(rows, h, d)

\* complete_habit, with completed = True in both branches
ToggleCompleted_AlwaysTrue(rows, h, d) == TRUE

\* complete_habit: the value of `completed`
ToggleCompleted(rows, h, d) == ~ExistingCompletion(rows, h, d)

\* complete_habit as a function of the committed rows: what one request, run
\* alone from the rows db on day d, leaves committed.
CompleteHabitOn(db, h, d) ==
  LET completed == ToggleCompleted(db.completions, h, d)
      u == IF ExistingCompletion(db.completions, h, d)
           THEN [xp_points |-> db.xp_points, level |-> db.level]
           ELSE AddXp(db.xp_points, db.level, XpPerCompletion)
      s == UpdateStreak(db.current_streak[h], db.longest_streak[h],
                        db.last_completed[h], completed, d)
  IN [completions |-> ToggleRows(db.completions, h, d),
      current_streak |-> [db.current_streak EXCEPT ![h] = s.current_streak],
      longest_streak |-> [db.longest_streak EXCEPT ![h] = s.longest_streak],
      last_completed |-> [db.last_completed EXCEPT ![h] = s.last_completed],
      xp_points |-> u.xp_points,
      level |-> u.level,
      completed |-> completed]

\* habits/__init__.py complete_habit, the whole handler
CompleteHabit(h) ==
  LET r == CompleteHabitOn(Db, h, today)
  IN /\ ~ExistingCompletion(completions, h, today)
          => /\ xp_points < XpPerCompletion * MaxCompletions
             /\ UniqueHabitCompletion(completions, h, today)
     /\ completions' = r.completions
     /\ current_streak' = r.current_streak
     /\ longest_streak' = r.longest_streak
     /\ last_completed' = r.last_completed
     /\ xp_points' = r.xp_points
     /\ level' = r.level
     /\ resp' = Response("complete_habit", h, 200, r.completed)
     /\ UNCHANGED <<today, schedule, raceVars, goalVars, siteVars>>

\* midnight
NextDay ==
  /\ today < MaxDay
  /\ today' = today + 1
  /\ UNCHANGED <<schedule, current_streak, longest_streak, last_completed,
                 completions, xp_points, level, resp, raceVars, goalVars, siteVars>>

\* midnight, within the week
NextWeekDay ==
  /\ today < WeekEnd
  /\ today' = today + 1
  /\ UNCHANGED <<schedule, current_streak, longest_streak, last_completed,
                 completions, xp_points, level, resp, raceVars, goalVars,
                 siteVars>>

\* ------------------------------------------- complete_habit, commit by commit
\* A request between two commits holds what its session loaded; every
\* db.session.commit() publishes the pending rows and expires the session.
NoSession ==
  [habit |-> 0, day |-> 0, existing |-> FALSE, current_streak |-> 0,
   longest_streak |-> 0, last_completed |-> None, xp_points |-> 0,
   level |-> 0]

\* load_user, Habit.query.get_or_404, date.today() and the query for
\* today's completion
ReqLoad(r, h) ==
  /\ pc[r] = "idle"
  /\ ~ExistingCompletion(completions, h, today)
       => xp_points < XpPerCompletion * MaxCompletions
  /\ sess' = [sess EXCEPT ![r] =
               [habit |-> h, day |-> today,
                existing |-> ExistingCompletion(completions, h, today),
                current_streak |-> current_streak[h],
                longest_streak |-> longest_streak[h],
                last_completed |-> last_completed[h],
                xp_points |-> xp_points, level |-> level]]
  /\ pc' = [pc EXCEPT ![r] = "loaded"]
  /\ UNCHANGED <<habitVars, goalVars, siteVars>>

\* the branch `if existing_completion`, update_streak(False) and the commit;
\* a delete that matches no row fails the flush and the request rolls back
ReqUncomplete(r) ==
  LET s == sess[r]
      h == s.habit
      u == UpdateStreak(s.current_streak, s.longest_streak, s.last_completed,
                        FALSE, s.day)
  IN /\ pc[r] = "loaded"
     /\ s.existing
     /\ IF ExistingCompletion(completions, h, s.day)
        THEN /\ completions' = DeleteCompletion(completions, h, s.day)
             /\ current_streak' =
                  IF u.current_streak # s.current_streak
                  THEN [current_streak EXCEPT ![h] = u.current_streak]
                  ELSE current_streak
             /\ resp' = Response("complete_habit", h, 200, FALSE)
        ELSE /\ UNCHANGED <<completions, current_streak>>
             /\ resp' = Response("complete_habit", h, 500, FALSE)
     /\ pc' = [pc EXCEPT ![r] = "idle"]
     /\ sess' = [sess EXCEPT ![r] = NoSession]
     /\ UNCHANGED <<today, schedule, longest_streak, last_completed,
                    xp_points, level, goalVars, siteVars>>

\* the branch `else` with the XP committed apart from the insert: a refused
\* insert leaves the grant behind
ReqInsertXp_XpKept(r) ==
  LET s == sess[r]
      h == s.habit
      u == AddXp(s.xp_points, s.level, XpPerCompletion)
  IN /\ pc[r] = "loaded"
     /\ ~s.existing
     /\ xp_points' = u.xp_points
     /\ level' = IF u.level # s.level THEN u.level ELSE level
     /\ IF UniqueHabitCompletion(completions, h, s.day)
        THEN /\ completions' = InsertCompletion(completions, h, s.day)
             /\ pc' = [pc EXCEPT ![r] = "xp_committed"]
             /\ UNCHANGED <<sess, resp>>
        ELSE /\ UNCHANGED completions
             /\ resp' = Response("complete_habit", h, 500, FALSE)
             /\ pc' = [pc EXCEPT ![r] = "idle"]
             /\ sess' = [sess EXCEPT ![r] = NoSession]
     /\ UNCHANGED <<today, schedule, current_streak, longest_streak,
                    last_completed, goalVars, siteVars>>

\* the branch `else`: db.session.add(completion) and current_user.add_xp(10),
\* whose db.session.commit() flushes the insert; the insert fails on
\* unique_habit_completion when the row is there, and the request rolls back
ReqInsertXp(r) ==
  LET s == sess[r]
      h == s.habit
      u == AddXp(s.xp_points, s.level, XpPerCompletion)
  IN /\ pc[r] = "loaded"
     /\ ~s.existing
     /\ IF UniqueHabitCompletion(completions, h, s.day)
        THEN /\ completions' = InsertCompletion(completions, h, s.day)
             /\ xp_points' = u.xp_points
             /\ level' = IF u.level # s.level THEN u.level ELSE level
             /\ pc' = [pc EXCEPT ![r] = "xp_committed"]
             /\ UNCHANGED <<sess, resp>>
        ELSE /\ UNCHANGED <<completions, xp_points, level>>
             /\ resp' = Response("complete_habit", h, 500, FALSE)
             /\ pc' = [pc EXCEPT ![r] = "idle"]
             /\ sess' = [sess EXCEPT ![r] = NoSession]
     /\ UNCHANGED <<today, schedule, current_streak, longest_streak,
                    last_completed, goalVars, siteVars>>

\* habit.update_streak(completed) on the habit reloaded after add_xp's
\* commit, and the handler's own db.session.commit()
ReqUpdateStreak(r) ==
  LET h == sess[r].habit
      u == UpdateStreak(current_streak[h], longest_streak[h],
                        last_completed[h], TRUE, today)
  IN /\ pc[r] = "xp_committed"
     /\ current_streak' = [current_streak EXCEPT ![h] = u.current_streak]
     /\ longest_streak' = [longest_streak EXCEPT ![h] = u.longest_streak]
     /\ last_completed' = [last_completed EXCEPT ![h] = u.last_completed]
     /\ resp' = Response("complete_habit", h, 200, TRUE)
     /\ pc' = [pc EXCEPT ![r] = "idle"]
     /\ sess' = [sess EXCEPT ![r] = NoSession]
     /\ UNCHANGED <<today, schedule, completions, xp_points, level,
                    goalVars, siteVars>>

\* --------------------------------------------------------- models/wallet.py
\* A percentage is a fraction num / den of integers with den > 0; amounts
\* are whole cents, so sums and comparisons of amounts are exact.
Frac(n, d) == [num |-> n, den |-> d]
FracLe(a, b) == a.num * b.den <= b.num * a.den
FracEq(a, b) == a.num * b.den = b.num * a.den
FracMin(a, b) == IF FracLe(a, b) THEN a ELSE b

RECURSIVE SumAmounts(_)
SumAmounts(rows) ==
  IF rows = {} THEN 0
  ELSE LET t == CHOOSE x \in rows : TRUE
       IN t.amount + SumAmounts(rows \ {t})

\* SavingsGoal.transactions taken as every row of the table
LinkedTransactions_AllRows(rows, g) == rows

\* SavingsGoal.transactions: the rows whose savings_goal_id is the goal
LinkedTransactions(rows, g) == {t \in rows : t.savings_goal_id = g}

\* SavingsGoal.get_saved_amount over a loaded transactions collection
SavedAmountOf(linked) ==
  IF linked = {} THEN 0 ELSE SumAmounts(linked)

GetSavedAmount(g) == SavedAmountOf(LinkedTransactions(transactions, g))

\* SavingsGoal.progress without the cap at 100
ProgressOf_NoCap(target, saved) ==
  IF target <= 0 \/ saved <= 0
  THEN Frac(0, 1)
  ELSE Frac(saved * 100, target)

\* SavingsGoal.progress
ProgressOf(target, saved) ==
  IF target <= 0 \/ saved <= 0
  THEN Frac(0, 1)
  ELSE FracMin(Frac(100, 1), Frac(saved * 100, target))

Progress(g) == ProgressOf(target_amount[g], GetSavedAmount(g))

\* Transaction(...) as SavingsGoal.add_transaction builds it
NewTransfer(id, g, amount, date) ==
  [id |-> id, user_id |-> Owner, amount |-> amount, category |-> "Savings",
   transaction_type |-> "transfer", date |-> date, savings_goal_id |-> g]

\* add_transaction, "Check if goal is completed", stamping every time the
\* target is met
GoalCheck_NoLatch(completed, at, saved, amount, target, now) ==
  IF saved + amount >= target
  THEN [is_completed |-> TRUE, completed_at |-> now]
  ELSE [is_completed |-> completed, completed_at |-> at]

\* add_transaction, "Check if goal is completed"
GoalCheck(completed, at, saved, amount, target, now) ==
  IF ~completed /\ saved + amount >= target
  THEN [is_completed |-> TRUE, completed_at |-> now]
  ELSE [is_completed |-> completed, completed_at |-> at]

GoalResponse(op, g, st) ==
  [op |-> op, goal |-> g, status |-> st, saved_amount |-> 0,
   progress |-> Frac(0, 1), is_completed |-> FALSE, days_remaining |-> 0,
   first_day |-> None, last_day |-> None, monthly_income |-> 0,
   monthly_expenses |-> 0, monthly_savings |-> 0, monthly_trend |-> <<>>]

\* SavingsGoal.add_transaction and the caller's commit.  `date` is None or a
\* day; `loaded` tells whether the session had loaded goal.transactions
\* before the call: a collection loaded earlier does not hold the new row,
\* one loaded by get_saved_amount() after db.session.add() does.
AddTransaction(g, amount, date, loaded) ==
  IF date = None
  THEN /\ gresp' = GoalResponse("add_transaction", g, 500)
       /\ UNCHANGED <<target_amount, is_completed, completed_at, target_date,
                      transactions, next_txn_id, habitVars, raceVars, siteVars>>
  ELSE LET t == NewTransfer(next_txn_id, g, amount, date)
           seen == IF loaded
                   THEN LinkedTransactions(transactions, g)
                   ELSE LinkedTransactions(transactions \cup {t}, g)
           c == GoalCheck(is_completed[g], completed_at[g],
                          SavedAmountOf(seen), amount, target_amount[g],
                          today)
       IN /\ next_txn_id <= MaxTxns
          /\ transactions' = transactions \cup {t}
          /\ next_txn_id' = next_txn_id + 1
          /\ is_completed' = [is_completed EXCEPT ![g] = c.is_completed]
          /\ completed_at' = [completed_at EXCEPT ![g] = c.completed_at]
          /\ gresp' = GoalResponse("add_transaction", g, 200)
          /\ UNCHANGED <<target_amount, target_date, habitVars, raceVars, siteVars>>

\* a row of a user is stored on a date, linked to no goal
RecordTransaction(u, type, amount, d) ==
  /\ next_txn_id <= MaxTxns
  /\ transactions' = transactions \cup
       {[id |-> next_txn_id, user_id |-> u, amount |-> amount,
         category |-> "Other", transaction_type |-> type, date |-> d,
         savings_goal_id |-> None]}
  /\ next_txn_id' = next_txn_id + 1
  /\ gresp' = GoalResponse("record_transaction", 0, 200)
  /\ UNCHANGED <<target_amount, is_completed, completed_at, target_date,
                 habitVars, raceVars, siteVars>>

\* a linked transaction row is deleted
RemoveTransaction(t) ==
  /\ t \in transactions
  /\ transactions' = transactions \ {t}
  /\ gresp' = GoalResponse("remove_transaction", t.savings_goal_id, 200)
  /\ UNCHANGED <<target_amount, is_completed, completed_at, target_date,
                 next_txn_id, habitVars, raceVars, siteVars>>

\* to_dict, 'days_remaining', with an overdue goal shown as 0 days
DaysRemaining_Clamped(tdate, completed, now) ==
  IF tdate # None /\ ~completed THEN Max(0, tdate - now) ELSE 0

\* to_dict, 'days_remaining'
DaysRemaining(tdate, completed, now) ==
  IF tdate # None /\ ~completed THEN tdate - now ELSE 0

\* SavingsGoal.to_dict: saved_amount, progress, is_completed, days_remaining
ToDict(g) ==
  /\ gresp' = [GoalResponse("to_dict", g, 200) EXCEPT
                 !.saved_amount = GetSavedAmount(g),
                 !.progress = Progress(g),
                 !.is_completed = is_completed[g],
                 !.days_remaining =
                    DaysRemaining(target_date[g], is_completed[g], today)]
  /\ UNCHANGED <<target_amount, is_completed, completed_at, target_date,
                 transactions, next_txn_id, habitVars, raceVars, siteVars>>

\* wallet/routes.py index, "Get active savings goals": the owner's goals
\* with target_date >= today or not completed (a NULL date compares to NULL)
DashboardGoals ==
  {g \in goal_ids :
     (target_date[g] # None /\ target_date[g] >= today) \/ ~is_completed[g]}

\* wallet/routes.py index, "Calculate progress for each goal":
\* min(int((saved_amount / target_amount) * 100), 100), with no guard on the
\* target. saved_amount is the float of get_saved_amount and target_amount
\* the Decimal of a Numeric column: the division raises ZeroDivisionError or
\* TypeError for every target, a zero one included, and no value is stored
DashboardProgressOf(target, saved) ==
  [raised |-> TRUE, value |-> 0]

\* the sum of the amounts of the rows of one transaction type
TotalOf(rows, type) ==
  SumAmounts({t \in rows : t.transaction_type = type})

\* wallet/routes.py index:
\* first.replace(month=first.month % 12 + 1, day=1) - timedelta(days=1)
\* for a first day of the month m of the year y
DashLastDay(y, m) == Ordinal(y, (m % 12) + 1, 1) - 1

\* wallet/routes.py index, "Get monthly trend (last 6 months)": the entries
\* for i = 5, 4, .., 0, each the month of the day 30 * i days before today
MonthlyTrend(now) ==
  [k \in 1..6 |->
     LET c == Calendar[now - 30 * (6 - k)]
     IN [month_start |-> Ordinal(c.year, c.month, 1),
         month_end |-> DashLastDay(c.year, c.month)]]

\* wallet/routes.py index: the monthly totals, the goals and the trend
WalletIndex ==
  LET bad == {g \in DashboardGoals :
                DashboardProgressOf(target_amount[g],
                                    GetSavedAmount(g)).raised}
      c == Calendar[today]
      first_day == Ordinal(c.year, c.month, 1)
      last_day == DashLastDay(c.year, c.month)
      rows == {t \in transactions :
                 /\ t.user_id = Owner
                 /\ first_day <= t.date /\ t.date <= last_day}
  IN /\ gresp' =
          IF bad # {} THEN GoalResponse("wallet_index", 0, 500)
          ELSE [GoalResponse("wallet_index", 0, 200) EXCEPT
                  !.first_day = first_day,
                  !.last_day = last_day,
                  !.monthly_income = TotalOf(rows, "income"),
                  !.monthly_expenses = TotalOf(rows, "expense"),
                  !.monthly_savings =
                     TotalOf(rows, "income") - TotalOf(rows, "expense"),
                  !.monthly_trend = MonthlyTrend(today)]
     /\ UNCHANGED <<target_amount, is_completed, completed_at, target_date,
                    transactions, next_txn_id, habitVars, raceVars, siteVars>>

\* The state after the habits and the goals are created: no completion, no
\* streak, no XP, no transaction.
\* the names models/wallet.py binds at module level
WalletModelNames ==
  {"datetime", "date", "Enum", "db", "hybrid_property", "TransactionType",
   "TransactionCategory", "Transaction", "SavingsGoal"}

SummaryResponse(raised, first, last, income, expenses) ==
  [raised |-> raised, first_day |-> first, last_day |-> last,
   total_income |-> income, total_expenses |-> expenses,
   savings |-> income - expenses]

\* Transaction.get_monthly_summary; the name timedelta is looked up when the
\* last day is computed and raises NameError when the module does not bind it
GetMonthlySummary(u, y, m) ==
  LET year == IF y = None \/ m = None THEN YearOf(today) ELSE y
      month == IF y = None \/ m = None THEN MonthOf(today) ELSE m
      first_day == Ordinal(year, month, 1)
  IN IF "timedelta" \notin WalletModelNames
     THEN SummaryResponse(TRUE, first_day, None, 0, 0)
     ELSE LET last_day == IF month = 12
                          THEN Ordinal(year + 1, 1, 1) - 1
                          ELSE Ordinal(year, month + 1, 1) - 1
              rows == {t \in transactions :
                         /\ t.user_id = u
                         /\ first_day <= t.date /\ t.date <= last_day}
          IN SummaryResponse(FALSE, first_day, last_day,
                             TotalOf(rows, "income"),
                             TotalOf(rows, "expense"))

\* a caller asks for the monthly summary of a user
MonthlySummary(u, y, m) ==
  /\ summary' = [call |-> [user_id |-> u, year |-> y, month |-> m,
                           today |-> today],
                 result |-> GetMonthlySummary(u, y, m)]
  /\ UNCHANGED <<habitVars, raceVars, goalVars, habit_ids, is_active,
                 goal_ids, page>>

\* what a habits page or form handler answers
PageResponse(op, u, h, st) ==
  [op |-> op, user |-> u, habit |-> h, status |-> st, errors |-> {},
   due |-> {}, total_habits |-> 0, completed_today |-> 0,
   completion_rate |-> Frac(0, 1)]

\* ------------------------------------- habits/__init__.py, the handlers
\* the names habits/__init__.py binds at module level
Users == {1, 2}

HabitsModuleNames ==
  {"Blueprint", "render_template", "redirect", "url_for", "flash", "request",
   "jsonify", "login_required", "current_user", "datetime", "date",
   "timedelta", "func", "or_", "db", "Habit", "HabitCompletion", "Frequency",
   "User", "HabitForm", "HabitCompletionForm", "habits"}

\* abort(code): the response status; an unbound name raises NameError, which
\* the application answers with 500
Abort(code) == IF "abort" \in HabitsModuleNames THEN code ELSE 500

\* the habit ids a request may carry: the habits and one id of no row
UnknownHabit == 3
HabitIdInputs == Habits \cup {UnknownHabit}

\* Habit.user_id: every habit of the model belongs to the owner
HabitUserId(h) == Owner

\* Habit.query.get_or_404(habit_id) and the ownership test of the handlers
Gate(u, hid) ==
  IF hid \notin habit_ids THEN 404
  ELSE IF HabitUserId(hid) # u THEN Abort(403)
  ELSE 200

\* view_habit: a read
ViewHabit(u, hid) ==
  /\ page' = PageResponse("view_habit", u, hid, Gate(u, hid))
  /\ UNCHANGED <<habitVars, raceVars, goalVars, habit_ids, is_active,
                 goal_ids, summary>>

\* HabitForm.validate without the test of the weekly days
HabitFormValidate_NoWeekly(form) ==
  IF form.frequency = MONTHLY /\ form.monthly_days = {}
  THEN {"monthly_days"}
  ELSE IF form.enable_reminder /\ ~form.reminder_time
  THEN {"reminder_time"}
  ELSE {}

\* HabitForm.validate: the fields that got an error
HabitFormValidate(form) ==
  IF form.frequency = WEEKLY /\ form.weekly_days = {}
  THEN {"weekly_days"}
  ELSE IF form.frequency = MONTHLY /\ form.monthly_days = {}
  THEN {"monthly_days"}
  ELSE IF form.enable_reminder /\ ~form.reminder_time
  THEN {"reminder_time"}
  ELSE {}

\* a posted habit form
HabitForm(frequency, weekly, monthly, reminder, time) ==
  [frequency |-> frequency, weekly_days |-> weekly, monthly_days |-> monthly,
   enable_reminder |-> reminder, reminder_time |-> time]

\* the habit forms a request may post: each frequency with and without its
\* days, with days of the other kind, and a reminder without its time
HabitForms ==
  { HabitForm(DAILY, {}, {}, FALSE, FALSE),
    HabitForm(DAILY, {0, 2, 4}, {1, 3}, TRUE, TRUE),
    HabitForm(DAILY, {}, {}, TRUE, FALSE),
    HabitForm(WEEKLY, {0, 2, 4}, {1, 3}, FALSE, FALSE),
    HabitForm(WEEKLY, {}, {1, 3}, FALSE, FALSE),
    HabitForm(MONTHLY, {0, 2, 4}, {1, 3}, FALSE, FALSE),
    HabitForm(MONTHLY, {0, 2, 4}, {}, FALSE, FALSE) }

\* edit_habit, "Update weekly or monthly days based on frequency"
EditedSchedule(form) ==
  CASE form.frequency = WEEKLY ->
         [frequency |-> WEEKLY, weekly_days |-> form.weekly_days,
          monthly_days |-> {}]
    [] form.frequency = MONTHLY ->
         [frequency |-> MONTHLY, weekly_days |-> {},
          monthly_days |-> form.monthly_days]
    [] OTHER ->
         [frequency |-> form.frequency, weekly_days |-> {},
          monthly_days |-> {}]

\* edit_habit with a posted form
EditHabit(u, hid, form) ==
  LET st == Gate(u, hid)
      errs == HabitFormValidate(form)
  IN /\ IF st # 200
        THEN /\ page' = PageResponse("edit_habit", u, hid, st)
             /\ UNCHANGED schedule
        ELSE IF errs # {}
        THEN /\ page' = [PageResponse("edit_habit", u, hid, 200)
                           EXCEPT !.errors = errs]
             /\ UNCHANGED schedule
        ELSE /\ schedule' = [schedule EXCEPT ![hid] = EditedSchedule(form)]
             /\ page' = PageResponse("edit_habit", u, hid, 302)
     /\ UNCHANGED <<today, current_streak, longest_streak, last_completed,
                    completions, xp_points, level, resp, raceVars, goalVars,
                    habit_ids, is_active, goal_ids, summary>>

\* delete_habit removing the habit row and its completion rows
DeleteHabit_Hard(u, hid) ==
  LET st == Gate(u, hid)
  IN /\ IF st # 200
        THEN /\ page' = PageResponse("delete_habit", u, hid, st)
             /\ UNCHANGED <<habit_ids, completions>>
        ELSE /\ habit_ids' = habit_ids \ {hid}
             /\ completions' = [completions EXCEPT
                                  ![hid] = [d \in Horizon |-> 0]]
             /\ page' = PageResponse("delete_habit", u, hid, 302)
     /\ UNCHANGED <<today, schedule, current_streak, longest_streak,
                    last_completed, xp_points, level, resp, raceVars,
                    goalVars, is_active, goal_ids, summary>>

\* delete_habit: the soft delete
DeleteHabit(u, hid) ==
  LET st == Gate(u, hid)
  IN /\ IF st # 200
        THEN /\ page' = PageResponse("delete_habit", u, hid, st)
             /\ UNCHANGED is_active
        ELSE /\ is_active' = [is_active EXCEPT ![hid] = FALSE]
             /\ page' = PageResponse("delete_habit", u, hid, 302)
     /\ UNCHANGED <<habitVars, raceVars, goalVars, habit_ids, goal_ids,
                    summary>>

\* complete_habit as any user asks for any id
CompleteHabitBy(u, hid) ==
  IF Gate(u, hid) # 200
  THEN /\ resp' = Response("complete_habit", hid, Gate(u, hid), FALSE)
       /\ UNCHANGED <<today, schedule, current_streak, longest_streak,
                      last_completed, completions, xp_points, level,
                      raceVars, goalVars, siteVars>>
  ELSE CompleteHabit(hid)

\* new_habit, "Set weekly or monthly days based on frequency"
NewSchedule(form) ==
  [frequency |-> form.frequency,
   weekly_days |-> IF form.frequency = WEEKLY THEN form.weekly_days ELSE {},
   monthly_days |-> IF form.frequency = MONTHLY THEN form.monthly_days
                    ELSE {}]

\* new_habit of the owner with a posted form
NewHabit(form) ==
  LET errs == HabitFormValidate(form)
      id == Cardinality(habit_ids) + 1
  IN /\ id \in Habits
     /\ IF errs # {}
        THEN /\ page' = [PageResponse("new_habit", Owner, 0, 200)
                           EXCEPT !.errors = errs]
             /\ UNCHANGED <<schedule, habit_ids>>
        ELSE /\ schedule' = [schedule EXCEPT ![id] = NewSchedule(form)]
             /\ habit_ids' = habit_ids \cup {id}
             /\ page' = PageResponse("new_habit", Owner, id, 302)
     /\ UNCHANGED <<today, current_streak, longest_streak, last_completed,
                    completions, xp_points, level, resp, raceVars, goalVars,
                    is_active, goal_ids, summary>>

\* index, "Categorize habits": the active habits of the user listed as due
DueHabits(u) ==
  {h \in habit_ids :
     HabitUserId(h) = u /\ is_active[h] /\ IsDue(schedule[h], today)}

\* index, "Get all active habits for the current user"
ActiveHabits(u) == {h \in habit_ids : HabitUserId(h) = u /\ is_active[h]}

\* the number of completion rows of a day over a set of habits
RECURSIVE RowsOn(_, _)
RowsOn(hs, d) ==
  IF hs = {} THEN 0
  ELSE LET h == CHOOSE x \in hs : TRUE
       IN completions[h][d] + RowsOn(hs \ {h}, d)

\* index, "Get today's completions", counting the rows of every habit
CompletedToday_AllHabits(u) == RowsOn(Habits, today)

\* index, "Get today's completions": the rows of the listed habits
CompletedToday(u) == RowsOn(ActiveHabits(u), today)

\* index, completion_rate, guarded against no habits
CompletionRate(completed, total) ==
  IF total > 0 THEN Frac(completed * 100, total) ELSE Frac(0, 1)

\* index
HabitsIndex(u) ==
  /\ page' = [PageResponse("index", u, 0, 200) EXCEPT
                !.due = DueHabits(u),
                !.total_habits = Cardinality(ActiveHabits(u)),
                !.completed_today = CompletedToday(u),
                !.completion_rate =
                   CompletionRate(CompletedToday(u),
                                  Cardinality(ActiveHabits(u)))]
  /\ UNCHANGED <<habitVars, raceVars, goalVars, habit_ids, is_active,
                 goal_ids, summary>>

\* ------------------------------------------------------- wallet/forms.py
\* NumberRange(min=0.01), in cents
MinAmount == 1

\* DataRequired and NumberRange(min=0.01) of an amount field
AmountFieldErrors(field, amount) ==
  IF amount = 0 \/ amount < MinAmount THEN {field} ELSE {}

\* TransactionForm.validate: the field validators, then "Ensure amount is
\* positive"
TransactionFormValidate(form) ==
  LET base == AmountFieldErrors("amount", form.amount)
  IN IF base # {} THEN base
     ELSE IF form.amount <= 0 THEN {"amount"} ELSE {}

\* SavingsGoalForm.validate: the field validators, then "Ensure target date
\* is in the future"
SavingsGoalFormValidate(form, now) ==
  LET base == AmountFieldErrors("target_amount", form.target_amount) \cup
              (IF form.target_date = None THEN {"target_date"} ELSE {})
  IN IF base # {} THEN base
     ELSE IF form.target_date <= now THEN {"target_date"} ELSE {}

\* TransferForm: the field validators, to_goal being one of the user's goals
TransferFormValidate(form) ==
  AmountFieldErrors("amount", form.amount) \cup
  (IF form.to_goal \notin goal_ids THEN {"to_goal"} ELSE {})

\* the page a form handler renders again with the errors of its fields
FormErrors(op, errs) ==
  /\ page' = [PageResponse(op, Owner, 0, 200) EXCEPT !.errors = errs]
  /\ UNCHANGED <<habitVars, raceVars, goalVars, habit_ids, is_active,
                 goal_ids, summary>>

\* a posted TransactionForm: rejected, or the row is stored
SubmitTransaction(form) ==
  LET errs == TransactionFormValidate(form)
  IN IF errs # {}
     THEN FormErrors("new_transaction", errs)
     ELSE RecordTransaction(Owner, form.transaction_type, form.amount, today)

\* a posted TransferForm: rejected, or the contribution is added to the goal
SubmitTransfer(form, loaded) ==
  LET errs == TransferFormValidate(form)
  IN IF errs # {}
     THEN FormErrors("transfer", errs)
     ELSE AddTransaction(form.to_goal, form.amount, today, loaded)

\* a posted SavingsGoalForm: rejected, or the goal is stored
SubmitGoal(form) ==
  LET errs == SavingsGoalFormValidate(form, today)
      id == Cardinality(goal_ids) + 1
  IN /\ id \in Goals
     /\ IF errs # {}
        THEN FormErrors("new_goal", errs)
        ELSE /\ goal_ids' = goal_ids \cup {id}
             /\ target_amount' = [target_amount EXCEPT
                                    ![id] = form.target_amount]
             /\ target_date' = [target_date EXCEPT ![id] = form.target_date]
             /\ page' = PageResponse("new_goal", Owner, 0, 302)
             /\ UNCHANGED <<is_completed, completed_at, transactions,
                            next_txn_id, gresp, habitVars, raceVars,
                            habit_ids, is_active, summary>>

InitAll(now, sched, targets, hids, gids) ==
  /\ today = now
  /\ schedule = sched
  /\ current_streak = [h \in Habits |-> 0]
  /\ longest_streak = [h \in Habits |-> 0]
  /\ last_completed = [h \in Habits |-> None]
  /\ completions = [h \in Habits |-> [d \in Horizon |-> 0]]
  /\ xp_points = 0
  /\ level = 1
  /\ resp = Response("none", 0, 0, FALSE)
  /\ pc = [r \in Reqs |-> "idle"]
  /\ sess = [r \in Reqs |-> NoSession]
  /\ target_amount = targets
  /\ is_completed = [g \in Goals |-> FALSE]
  /\ completed_at = [g \in Goals |-> None]
  /\ target_date = [g \in Goals |-> IF g = 1 THEN 1 ELSE None]
  /\ transactions = {}
  /\ next_txn_id = 1
  /\ gresp = GoalResponse("none", 0, 0)
  /\ habit_ids = hids
  /\ is_active = [h \in Habits |-> TRUE]
  /\ goal_ids = gids
  /\ page = PageResponse("none", 0, 0, 0)
  /\ summary = [call |-> [user_id |-> 0, year |-> None, month |-> None,
                          today |-> 0],
                result |-> SummaryResponse(FALSE, None, None, 0, 0)]

InitWith(sched, targets) == InitAll(0, sched, targets, Habits, Goals)

AllDaily ==
  [h \in Habits |-> [frequency |-> DAILY, weekly_days |-> {},
                     monthly_days |-> {}]]

Init ==
  \E sched \in [Habits -> Schedules] :
    InitWith(sched, [g \in Goals |-> 6500])

Next ==
  \/ \E h \in Habits : CompleteHabit(h)
  \/ \E h \in Habits : AddCompletion(h)
  \/ NextDay

Spec == Init /\ [][Next]_vars

\* One weekly habit, due on Monday, Wednesday and Friday, over a week that
\* starts on a Monday.
WeekHabit == 1
MonWedFri ==
  [h \in Habits |-> [frequency |-> WEEKLY, weekly_days |-> {0, 2, 4},
                     monthly_days |-> {}]]

WeekInit == InitWith(MonWedFri, [g \in Goals |-> 6500])

WeekNext ==
  \/ CompleteHabit(WeekHabit)
  \/ AddCompletion(WeekHabit)
  \/ NextWeekDay

SpecWeek == WeekInit /\ [][WeekNext]_vars

\* Two requests whose commits interleave within one day; every habit is a
\* daily one.
RaceInit == InitWith(AllDaily, [g \in Goals |-> 6500])

RaceNext ==
  \/ \E r \in Reqs, h \in Habits : ReqLoad(r, h)
  \/ \E r \in Reqs : ReqUncomplete(r)
  \/ \E r \in Reqs : ReqInsertXp(r)
  \/ \E r \in Reqs : ReqUpdateStreak(r)
  \/ \E h \in Habits : AddCompletion(h)

SpecRace == RaceInit /\ [][RaceNext]_vars

\* The savings goals of one owner.
GoalInit ==
  \E targets \in [Goals -> TargetAmounts] : InitWith(AllDaily, targets)

GoalNext ==
  \/ \E g \in Goals, a \in Amounts, l \in BOOLEAN :
       AddTransaction(g, a, today, l)
  \/ \E g \in Goals : AddTransaction(g, 4000, None, TRUE)
  \/ RecordTransaction(Owner, "expense", 4000, today)
  \/ \E t \in transactions : RemoveTransaction(t)
  \/ \E g \in Goals : ToDict(g)
  \/ WalletIndex
  \/ NextDay

SpecGoal == GoalInit /\ [][GoalNext]_vars

\* The four habit handlers that take an id, asked by the owner and by
\* another user, for the habits and for an id of no row.
AuthInit == InitWith(AllDaily, [g \in Goals |-> 6500])

AuthNext ==
  \/ \E u \in Users, hid \in HabitIdInputs : ViewHabit(u, hid)
  \/ \E u \in Users, hid \in HabitIdInputs, f \in HabitForms :
       EditHabit(u, hid, f)
  \/ \E u \in Users, hid \in HabitIdInputs : DeleteHabit(u, hid)
  \/ \E u \in Users, hid \in HabitIdInputs : CompleteHabitBy(u, hid)

SpecAuth == AuthInit /\ [][AuthNext]_vars

\* The forms of the owner, posted within one day: one habit and one goal
\* are stored, a second of each can be created.
FormAmounts == {-4000, 0, 4000}
TransactionForms ==
  [amount : FormAmounts, transaction_type : {"income", "expense"}]
TransferForms == [amount : FormAmounts, to_goal : Goals]
GoalForms == [target_amount : {0, 6500}, target_date : Days \cup {None}]

FormsInit ==
  \E now \in Days : InitAll(now, AllDaily, [g \in Goals |-> 6500], {1}, {1})

FormsNext ==
  \/ \E f \in HabitForms : NewHabit(f)
  \/ \E f \in TransactionForms : SubmitTransaction(f)
  \/ \E f \in TransferForms, l \in BOOLEAN : SubmitTransfer(f, l)
  \/ \E f \in GoalForms : SubmitGoal(f)

SpecForms == FormsInit /\ [][FormsNext]_vars

\* The schedules of the owner's habits as edit_habit changes them, and the
\* habits page over the days.
ScheduleNext ==
  \/ \E h \in Habits, f \in HabitForms : EditHabit(Owner, h, f)
  \/ \E h \in Habits : DeleteHabit(Owner, h)
  \/ \E u \in Users : HabitsIndex(u)
  \/ NextDay

SpecSchedule == Init /\ [][ScheduleNext]_vars

\* User.add_xp(10), committed
GrantXp ==
  LET u == AddXp(xp_points, level, XpPerCompletion)
  IN /\ xp_points < MaxXp
     /\ xp_points' = u.xp_points
     /\ level' = u.level
     /\ UNCHANGED <<today, schedule, current_streak, longest_streak,
                    last_completed, completions, resp, raceVars, goalVars,
                    siteVars>>

\* Grants of XP from 0 XP at level 1, among the toggles of a day.
LevelNext ==
  \/ GrantXp
  \/ \E h \in Habits : CompleteHabit(h)

SpecLevel == AuthInit /\ [][LevelNext]_vars

\* The habits page of the owner as habits are completed and deleted.
PageNext ==
  \/ \E h \in Habits : CompleteHabitBy(Owner, h)
  \/ \E h \in Habits : AddCompletion(h)
  \/ \E h \in Habits : DeleteHabit(Owner, h)
  \/ HabitsIndex(Owner)
  \/ NextDay

SpecPage == AuthInit /\ [][PageNext]_vars

\* the ledger and its monthly summary, over the turn of a year
LedgerDates ==
  {Ordinal(2024, 11, 30), Ordinal(2024, 12, 1), Ordinal(2024, 12, 31),
   Ordinal(2025, 1, 1)}

MonthInit == InitWith(AllDaily, [g \in Goals |-> 6500])

LedgerRows ==
  {<<Owner, "income">>, <<Owner, "expense">>, <<Owner, "transfer">>,
   <<2, "income">>}

MonthNext ==
  \/ \E k \in LedgerRows, d \in LedgerDates :
       RecordTransaction(k[1], k[2], 4000, d)
  \/ \E t \in transactions : RemoveTransaction(t)
  \/ \E y \in Years, m \in Months : MonthlySummary(Owner, y, m)
  \/ MonthlySummary(Owner, None, None)

SpecMonth == MonthInit /\ [][MonthNext]_vars

\* The wallet dashboard of an owner without goals, opened on a day of 2025.
DashDates ==
  {Ordinal(2025, m, 15) : m \in Months}
    \cup {Ordinal(2025, 7, 31), Ordinal(2025, 12, 31)}

DashInit ==
  \E now \in DashDates :
    InitAll(now, AllDaily, [g \in Goals |-> 6500], Habits, {})

DashNext ==
  \/ \E type \in {"income", "expense"}, m \in {7, 12} :
       RecordTransaction(Owner, type, 4000, Ordinal(2025, m, 31))
  \/ \E t \in transactions : RemoveTransaction(t)
  \/ WalletIndex

SpecDash == DashInit /\ [][DashNext]_vars

\* ----------------------------------------------------------------- claims
RowsOf(h) == {d \in Horizon : completions[h][d] > 0}

\* C1: every habit has longest_streak >= current_streak in every state that
\* complete_habit and add_completion reach from 0 / 0.
LongestAtLeastCurrent ==
  \A h \in Habits : longest_streak[h] >= current_streak[h]

\* add_completion has raised both counters of a habit to 2
LongestAtLeastCurrentWitness ==
  /\ resp.op = "add_completion"
  /\ resp.completed
  /\ current_streak[resp.habit] = 2
  /\ longest_streak[resp.habit] = 2

\* C2: no step lowers the longest_streak of a habit.
LongestNeverDecreases ==
  [][\A h \in Habits : longest_streak'[h] >= longest_streak[h]]_vars

\* an uncompleting toggle has left the longest streak above the current one
LongestNeverDecreasesWitness ==
  /\ resp.op = "complete_habit"
  /\ ~resp.completed
  /\ longest_streak[resp.habit] = 2
  /\ current_streak[resp.habit] = 1

UncompleteEffect ==
  /\ [](\A h \in Habits : current_streak[h] >= 0)
  /\ [][\A h \in Habits :
          (CompleteHabit(h) /\ ExistingCompletion(completions, h, today)) =>
            /\ ~ExistingCompletion(completions', h, today)
            /\ \A g \in Habits, d \in Days :
                 <<g, d>> # <<h, today>> =>
                   completions'[g][d] = completions[g][d]
            /\ current_streak'[h] = Max(0, current_streak[h] - 1)
            /\ longest_streak'[h] = longest_streak[h]
            /\ resp'.completed = FALSE]_vars

\* an uncompleting toggle has taken a streak of 3 down to 2
UncompleteEffectWitness ==
  /\ resp.op = "complete_habit"
  /\ ~resp.completed
  /\ current_streak[resp.habit] = 2
  /\ longest_streak[resp.habit] = 3
  /\ ~ExistingCompletion(completions, resp.habit, today)

\* C8: a complete_habit request that finds no completion for today inserts
\* exactly one row for (habit, today), raises current_streak by 1, sets
\* longest_streak to max(longest_streak, new current_streak), sets
\* last_completed and reports completed = true.
CompleteEffect ==
  [][\A h \in Habits :
       (CompleteHabit(h) /\ ~ExistingCompletion(completions, h, today)) =>
         /\ completions'[h][today] = 1
         /\ \A g \in Habits, d \in Days :
              <<g, d>> # <<h, today>> =>
                completions'[g][d] = completions[g][d]
         /\ current_streak'[h] = current_streak[h] + 1
         /\ longest_streak'[h] = Max(longest_streak[h], current_streak'[h])
         /\ last_completed'[h] = today
         /\ resp'.completed = TRUE]_vars

\* a completing toggle on day 2 after a day without one: the counter moved
\* from 1 to 2 below a longest streak that stays where it was
CompleteEffectWitness ==
  /\ resp.op = "complete_habit"
  /\ resp.completed
  /\ today = 2
  /\ RowsOf(resp.habit) = {0, 2}
  /\ current_streak[resp.habit] = 2
  /\ last_completed[resp.habit] = 2

\* C5: the streak of the backward scan over the completion rows equals the
\* current_streak counter, for every schedule; compared where today's
\* completion is recorded, so that the scan starts on a completed day.
RecomputeAgreement ==
  \A h \in Habits :
    (IsDue(schedule[h], today) /\ ExistingCompletion(completions, h, today))
      => GetCurrentStreak(h) = current_streak[h]

\* C3: the committed habit_completions rows never hold two rows with the
\* same (habit_id, completion_date), also when two requests race.
NoDuplicateCompletion ==
  \A h \in Habits, d \in Days : completions[h][d] <= 1

\* a request that had read "no completion" lost the race: its insert was
\* refused and the row of the other request is the only one
NoDuplicateCompletionWitness ==
  /\ resp.op = "complete_habit"
  /\ resp.status = 500
  /\ completions[resp.habit][today] = 1
  /\ \E r \in Reqs : pc[r] = "xp_committed" /\ sess[r].habit = resp.habit

\* C6: no committed state holds the completion row that a completing toggle
\* inserted while the streak counters of the habit still hold the values
\* from before the toggle.
ToggleAtomic ==
  \A r \in Reqs :
    pc[r] = "xp_committed" =>
      ~ /\ ExistingCompletion(completions, sess[r].habit, sess[r].day)
        /\ current_streak[sess[r].habit] = sess[r].current_streak
        /\ longest_streak[sess[r].habit] = sess[r].longest_streak

\* C9: once is_completed of a goal is true no step sets it back to false,
\* and completed_at, once stamped, is never cleared nor overwritten.
CompletionLatch ==
  [][\A g \in Goals :
       /\ is_completed[g] => is_completed'[g]
       /\ completed_at[g] # None => completed_at'[g] = completed_at[g]
       /\ is_completed[g] => completed_at'[g] = completed_at[g]]_vars

\* a goal completed on an earlier day took a further contribution after
\* linked transactions were removed, with less than the target saved now
CompletionLatchWitness ==
  /\ gresp.op = "add_transaction"
  /\ gresp.status = 200
  /\ is_completed[gresp.goal]
  /\ completed_at[gresp.goal] < today
  /\ target_amount[gresp.goal] > 0
  /\ GetSavedAmount(gresp.goal) < target_amount[gresp.goal]

\* C10: the progress of every goal lies in 0..100, and it is 100 exactly
\* when saved_amount >= target_amount > 0.
ProgressBounds ==
  \A g \in Goals :
    /\ FracLe(Frac(0, 1), Progress(g))
    /\ FracLe(Progress(g), Frac(100, 1))
    /\ FracEq(Progress(g), Frac(100, 1))
         <=> (GetSavedAmount(g) >= target_amount[g] /\ target_amount[g] > 0)

\* to_dict reported a goal with more saved than its target at progress 100
ProgressBoundsWitness ==
  /\ gresp.op = "to_dict"
  /\ target_amount[gresp.goal] > 0
  /\ gresp.saved_amount > target_amount[gresp.goal]
  /\ gresp.progress = Frac(100, 1)

\* C11: every computation of the progress percentage, SavingsGoal.progress
\* and the per-goal progress of the wallet dashboard alike, yields 0 for a
\* goal whose target_amount is <= 0 and never raises on it.
ProgressGuardedEverywhere ==
  /\ \A g \in Goals :
        target_amount[g] <= 0 =>
          /\ FracEq(Progress(g), Frac(0, 1))
          /\ ~DashboardProgressOf(target_amount[g], GetSavedAmount(g)).raised
          /\ DashboardProgressOf(target_amount[g], GetSavedAmount(g)).value = 0
  /\ gresp.op = "wallet_index" => gresp.status = 200

\* C12: add_transaction completes the goal exactly when it was not completed
\* and the amounts linked before plus the new amount, counted once, reach the
\* target; a contribution that leaves the total below the target never
\* completes it.
ContributionCountedOnce ==
  [][\A g \in Goals :
       (/\ gresp'.op = "add_transaction" /\ gresp'.goal = g
        /\ gresp'.status = 200
        /\ transactions' # transactions)
       => (is_completed'[g] <=>
             (is_completed[g] \/
              SavedAmountOf(LinkedTransactions(transactions', g))
                >= target_amount[g]))]_vars

\* the n-th stored row's amount when it is linked to goal g, summed by id
RECURSIVE LinkedTotal(_, _)
LinkedTotal(g, n) ==
  IF n = 0 THEN 0
  ELSE LinkedTotal(g, n - 1) +
       (IF \E t \in transactions : t.id = n /\ t.savings_goal_id = g
        THEN (CHOOSE t \in transactions : t.id = n).amount
        ELSE 0)

\* C13: after any contributions and removals get_saved_amount of a goal is
\* the sum of the amounts of exactly the rows now linked to it (0 when none),
\* with nothing from other goals or from unlinked rows.
SavedIsLinkedSum ==
  /\ \A g \in Goals : GetSavedAmount(g) = LinkedTotal(g, next_txn_id - 1)
  /\ gresp.op = "to_dict" /\ transactions = {} => gresp.saved_amount = 0

SavedIsLinkedSumWitness ==
  \E g \in Goals :
    /\ GetSavedAmount(g) > 0
    /\ \E t \in transactions : t.savings_goal_id = None

\* C14: to_dict reports days_remaining = target_date - today, negatives kept,
\* when the goal has a target date and is not completed, and 0 otherwise.
DaysRemainingSigned ==
  [][\A g \in Goals :
       (/\ gresp'.op = "to_dict" /\ gresp'.goal = g
        /\ UNCHANGED <<today, target_date, is_completed>>)
       => gresp'.days_remaining =
            (IF target_date[g] = None \/ is_completed[g]
             THEN 0
             ELSE target_date[g] - today)]_vars

DaysRemainingSignedWitness ==
  /\ gresp.op = "to_dict"
  /\ gresp.days_remaining < 0

\* the calendar's last day of a month, counted from its length
LastDayOfMonth(y, m) == Ordinal(y, m, 1) + DaysInMonth(y, m) - 1

\* the rows a monthly summary of the user must count, by type
MonthRows(u, y, m, type) ==
  {t \in transactions :
     /\ t.user_id = u
     /\ t.transaction_type = type
     /\ YearOf(t.date) = y /\ MonthOf(t.date) = m}

\* C15: get_monthly_summary(user, year, month) returns the user's INCOME and
\* EXPENSE totals over the rows dated within that month, first and last day
\* included, without TRANSFER rows, other users' rows or other months' rows,
\* with savings = income - expenses and 0 / 0 / 0 when no row matches.
MonthlySummaryTotals ==
  [][summary' # summary /\ summary'.call.year # None =>
       LET c == summary'.call
           r == summary'.result
           income == SumAmounts(MonthRows(c.user_id, c.year, c.month,
                                          "income"))
           expenses == SumAmounts(MonthRows(c.user_id, c.year, c.month,
                                            "expense"))
       IN /\ ~r.raised
          /\ r.total_income = income
          /\ r.total_expenses = expenses
          /\ r.savings = income - expenses]_vars

\* C16: for every month 1..12, December included, the last day the summary
\* uses is the last calendar day of that month of that year, and the first
\* day is never after it.
MonthIntervalIsTheMonth ==
  summary.call.user_id # 0 /\ summary.call.year # None =>
    LET c == summary.call
        r == summary.result
    IN /\ ~r.raised
       /\ r.first_day = Ordinal(c.year, c.month, 1)
       /\ r.last_day = LastDayOfMonth(c.year, c.month)
       /\ r.first_day <= r.last_day

\* C18: when two complete_habit requests for one habit and day both read
\* "no completion" before either commits, at most one row is committed and
\* the request whose insert is refused is rolled back whole: no XP, no
\* streak change, no row of its own.
RaceLoserRolledBack ==
  /\ [](\A h \in Habits, d \in Days : completions[h][d] <= 1)
  /\ [][\A r \in Reqs :
         (/\ pc[r] = "loaded" /\ ~sess[r].existing
          /\ ExistingCompletion(completions, sess[r].habit, sess[r].day)
          /\ pc'[r] # "loaded")
         => /\ UNCHANGED <<completions, xp_points, level, current_streak,
                          longest_streak, last_completed>>
            /\ pc'[r] = "idle"
            /\ resp'.status = 500]_vars

\* both requests are over: one row, one grant of XP, one streak step, and
\* the last answer is the refusal
RaceLoserRolledBackWitness ==
  /\ resp.op = "complete_habit" /\ resp.status = 500
  /\ \A r \in Reqs : pc[r] = "idle"
  /\ completions[resp.habit][today] = 1
  /\ xp_points = XpPerCompletion
  /\ current_streak[resp.habit] = 1
  /\ \A h \in Habits \ {resp.habit} : completions[h][today] = 0

\* the rows and fields of the habit tables and of the owner
HabitStore ==
  <<schedule, current_streak, longest_streak, last_completed, completions,
    xp_points, level, habit_ids, is_active>>

\* C17: view_habit, edit_habit, delete_habit and complete_habit asked by a
\* user who does not own the habit answer 403, an unknown id answers 404,
\* and in both cases no habit, completion, streak or XP changes.
NonOwnerFailsClosed ==
  [][\A u \in Users, hid \in HabitIdInputs :
       /\ (ViewHabit(u, hid) \/ DeleteHabit(u, hid)
            \/ \E f \in HabitForms : EditHabit(u, hid, f))
           => /\ hid \notin habit_ids
                   => page'.status = 404 /\ UNCHANGED HabitStore
              /\ (hid \in habit_ids /\ HabitUserId(hid) # u)
                   => page'.status = 403 /\ UNCHANGED HabitStore
       /\ CompleteHabitBy(u, hid)
           => /\ hid \notin habit_ids
                   => resp'.status = 404 /\ UNCHANGED HabitStore
              /\ (hid \in habit_ids /\ HabitUserId(hid) # u)
                   => resp'.status = 403 /\ UNCHANGED HabitStore]_vars

\* the rows and fields of the wallet tables
WalletStore ==
  <<target_amount, is_completed, completed_at, target_date, transactions,
    next_txn_id, goal_ids>>

DueOnDateRule ==
  /\ [](\A h \in Habits :
          /\ schedule[h].frequency # WEEKLY => schedule[h].weekly_days = {}
          /\ schedule[h].frequency # MONTHLY => schedule[h].monthly_days = {})
  /\ [][\A u \in Users :
         HabitsIndex(u) =>
           page'.due =
             {h \in habit_ids :
                /\ HabitUserId(h) = u /\ is_active[h]
                /\ \/ schedule[h].frequency = DAILY
                   \/ /\ schedule[h].frequency = WEEKLY
                      /\ Weekday(today) \in schedule[h].weekly_days
                   \/ /\ schedule[h].frequency = MONTHLY
                      /\ DayOfMonth(today) \in schedule[h].monthly_days}]_vars

\* on a Tuesday the 2nd the page lists the daily habit and not the weekly one
DueOnDateRuleWitness ==
  /\ page.op = "index" /\ page.user = Owner
  /\ today = 1
  /\ page.due = DueHabits(Owner)
  /\ \E h \in page.due : schedule[h].frequency = DAILY
  /\ \E h \in habit_ids \ page.due :
       is_active[h] /\ schedule[h].frequency = WEEKLY

\* the due days up to today, those with a completion row and those without
DueDays(h) == {d \in 0..today : IsDue(schedule[h], d)}
DoneDays(h) == {d \in DueDays(h) : completions[h][d] > 0}
MissedDays(h) == DueDays(h) \ DoneDays(h)

\* C21: with completions on due days only, once today's due day is completed
\* current_streak counts the completed due days since the last due day that
\* went without a completion (3 for Monday, Wednesday, Friday all completed):
\* days that are not due take nothing away, a missed due day ends the streak.
StreakOverDueDays ==
  \A h \in Habits :
    (/\ today \in DoneDays(h)
     /\ RowsOf(h) \subseteq DueDays(h))
    => current_streak[h] =
         Cardinality({d \in DoneDays(h) : \A m \in MissedDays(h) : m < d})

\* C22: delete_habit only clears the active flag of the habit: the row, its
\* schedule, its streak counters and its completion rows stay, and from then
\* on the habits page neither lists the habit nor counts it.
SoftDelete ==
  [][/\ \A h \in Habits :
          (DeleteHabit(Owner, h) /\ h \in habit_ids)
            => /\ ~is_active'[h]
               /\ \A g \in Habits \ {h} : is_active'[g] = is_active[g]
               /\ UNCHANGED <<habit_ids, schedule, current_streak,
                              longest_streak, last_completed, completions,
                              xp_points, level>>
     /\ page'.op = "index" /\ page' # page
          => \A h \in Habits :
               ~is_active[h]
                 => /\ h \notin page'.due
                    /\ page'.total_habits <=
                         Cardinality(habit_ids \ {h})]_vars

\* the page lists one habit after the other one, with a completion row and a
\* streak, was deleted
SoftDeleteWitness ==
  /\ page.op = "index"
  /\ page.total_habits = 1
  /\ \E h \in habit_ids :
       /\ ~is_active[h]
       /\ h \notin page.due
       /\ RowsOf(h) # {}
       /\ current_streak[h] > 0

\* C23: a complete_habit request that stores today's completion raises the
\* owner's xp_points by exactly 10, and no step of any request lowers
\* xp_points: the total is the initial value plus 10 for each completing
\* toggle.
XpPerCompletingToggle ==
  [][/\ \A r \in Reqs :
          (ReqInsertXp(r) /\ pc'[r] = "xp_committed")
            => xp_points' = xp_points + XpPerCompletion
     /\ xp_points' >= xp_points]_vars

\* C24: from 0 XP at level 1, every grant of 10 XP leaves level >= 1 and
\* xp_points < level * 100, raises the level by at most 1 and never lowers
\* it.
LevelFollowsXp ==
  [][/\ level' >= 1
     /\ xp_points' < level' * XpPerLevel
     /\ level' \in {level, level + 1}]_vars

\* two levels were gained, each at its threshold
LevelFollowsXpWitness ==
  /\ xp_points = 2 * XpPerLevel
  /\ level = 3

\* C25: the dashboard's totals of the current month are taken over the
\* closed interval from the first to the last day of that month, in every
\* month of the year, and are the income, expenses and savings that
\* get_monthly_summary returns for the month.
DashboardMatchesSummary ==
  gresp.op = "wallet_index" /\ gresp.status = 200 =>
    LET y == YearOf(today)
        m == MonthOf(today)
        s == GetMonthlySummary(Owner, y, m)
    IN /\ gresp.first_day = Ordinal(y, m, 1)
       /\ gresp.last_day = LastDayOfMonth(y, m)
       /\ gresp.monthly_income = SumAmounts(MonthRows(Owner, y, m, "income"))
       /\ gresp.monthly_expenses =
            SumAmounts(MonthRows(Owner, y, m, "expense"))
       /\ ~s.raised
       /\ s.first_day = gresp.first_day /\ s.last_day = gresp.last_day
       /\ s.total_income = gresp.monthly_income
       /\ s.total_expenses = gresp.monthly_expenses
       /\ s.savings = gresp.monthly_savings

\* C26: the six entries of the monthly trend are six consecutive months in
\* order, the last one the current month, and each interval runs from the
\* first to the last day of its month.
TrendIsSixMonths ==
  gresp.op = "wallet_index" /\ gresp.status = 200 =>
    LET trend == gresp.monthly_trend
        \* months counted from January of the base year
        Index(d) == 12 * (YearOf(d) - BaseYear) + MonthOf(d)
    IN /\ Len(trend) = 6
       /\ \A k \in 1..6 :
            LET e == trend[k]
            IN /\ Index(e.month_start) = Index(today) - (6 - k)
               /\ e.month_start =
                    Ordinal(YearOf(e.month_start), MonthOf(e.month_start), 1)
               /\ e.month_end =
                    LastDayOfMonth(YearOf(e.month_start),
                                   MonthOf(e.month_start))
               /\ e.month_start <= e.month_end

\* C27: on a day without a completion Habit.add_completion stores one
\* completion, raises current_streak by 1, raises longest_streak when it is
\* exceeded, stamps last_completed and returns True; a further call on the
\* same day returns False and changes none of them.
AddCompletionIdempotent ==
  [][\A h \in Habits :
       AddCompletion(h) =>
         IF completions[h][today] = 0
         THEN /\ resp'.completed
              /\ completions' = [completions EXCEPT ![h][today] = 1]
              /\ current_streak'[h] = current_streak[h] + 1
              /\ longest_streak'[h] =
                   Max(longest_streak[h], current_streak[h] + 1)
              /\ last_completed'[h] = today
         ELSE /\ ~resp'.completed
              /\ UNCHANGED <<completions, current_streak, longest_streak,
                             last_completed>>]_vars

\* a second call of the day was refused after the first one raised the
\* longest streak
AddCompletionIdempotentWitness ==
  /\ resp.op = "add_completion"
  /\ ~resp.completed
  /\ completions[resp.habit][today] = 1
  /\ last_completed[resp.habit] = today
  /\ longest_streak[resp.habit] = current_streak[resp.habit]
  /\ current_streak[resp.habit] >= 2

\* C28: the current_streak of a habit is at most the number of its
\* completion rows, and 0 when it has none.
StreakWithinRows ==
  \A h \in Habits : current_streak[h] <= Cardinality(RowsOf(h))

\* C29: SavingsGoal.add_transaction called without a date succeeds and
\* stores a TRANSFER row of category SAVINGS, linked to the goal, owned by
\* the goal's owner and dated today.
DefaultDateIsToday ==
  [][\A g \in Goals, a \in Amounts, l \in BOOLEAN :
       AddTransaction(g, a, None, l) =>
         /\ gresp'.status = 200
         /\ \E t \in transactions' \ transactions :
              /\ t.transaction_type = "transfer"
              /\ t.category = "Savings"
              /\ t.savings_goal_id = g
              /\ t.user_id = Owner
              /\ t.amount = a
              /\ t.date = today]_vars

\* C30: on the habits page the completion rate lies in [0, 100], is 0 when
\* there is no active habit (no division by zero), and the completions of
\* today that are counted never exceed the number of active habits.
CompletionRateBounds ==
  page.op = "index" =>
    /\ page.completed_today <= page.total_habits
    /\ page.completion_rate.den > 0
    /\ page.completion_rate.num >= 0
    /\ page.completion_rate.num <= 100 * page.completion_rate.den
    /\ page.total_habits = 0 => page.completion_rate.num = 0

\* the one listed habit is completed, at a rate of 100, while a deleted
\* habit holds a completion of today as well
CompletionRateBoundsWitness ==
  /\ page.op = "index"
  /\ page.total_habits = 1
  /\ page.completed_today = 1
  /\ page.completion_rate.num = 100 * page.completion_rate.den
  /\ \E h \in habit_ids : ~is_active[h] /\ completions[h][today] = 1

====
